---- MODULE Spec2Model ----
(***************************************************************************)
(* Model of src/index.ts: a relay that watches a directory with chokidar  *)
(* and posts every new .png file to one Discord channel.                   *)
(*                                                                         *)
(* The module body of index.ts runs top to bottom once (pc walks through  *)
(* it); afterwards the Node event loop delivers the callbacks the module  *)
(* registered, one at a time.  Each callback runs up to its first await   *)
(* in one step; the continuation after an await is a separate step.       *)
(***************************************************************************)
EXTENDS Integers, Sequences, FiniteSets, Bags, TLC

\* ------------------------------------------------------------------ bounds
\* add notifications the watcher emits in one run
MaxEvents == 2
\* steps of the world around the process in one run: files created and
\* deleted by other processes, background notifications of the watcher and
\* the client
MaxWorldSteps == 2
\* ClientReady deliveries in the specification that lets the client re-emit it
MaxReady == 2

\* ------------------------------------------------------- the environment
\* process.env[name] of a variable that is not set
Undefined == "<undefined>"

\* line 20
requiredEnvVars == <<"DISCORD_TOKEN", "CHANNEL_ID", "WATCH_PATH">>

\* the values each variable is drawn from: unset, empty, or a value
EnvValues ==
  [DISCORD_TOKEN : {Undefined, "", "tok"},
   CHANNEL_ID    : {Undefined, "", "c1"},
   WATCH_PATH    : {Undefined, "", "w"}]

\* JavaScript truthiness of process.env[name], line 22
Falsy(v) == v = Undefined \/ v = ""

\* ------------------------------------------------------------------ paths
\* A path is a sequence of one-character strings.
P_png     == <<"w", "/", "a", ".", "p", "n", "g">>
P_PNG     == <<"w", "/", "a", ".", "P", "N", "G">>
P_jpg     == <<"w", "/", "a", ".", "j", "p", "g">>
P_bak     == <<"w", "/", "a", ".", "p", "n", "g", ".", "b", "a", "k">>
P_hidden  == <<"w", "/", ".", "h", ".", "p", "n", "g">>

Paths == {P_png, P_PNG, P_jpg, P_bak, P_hidden}

RECURSIVE LastIndexOf(_, _, _)
\* the largest i <= n with s[i] = c, or 0
LastIndexOf(s, c, n) ==
  IF n = 0 THEN 0
  ELSE IF s[n] = c THEN n ELSE LastIndexOf(s, c, n - 1)

RECURSIVE StripTrailingSlashes(_)
StripTrailingSlashes(s) ==
  IF Len(s) > 1 /\ s[Len(s)] = "/"
  THEN StripTrailingSlashes(SubSeq(s, 1, Len(s) - 1))
  ELSE s

\* path.basename, line 125: the last segment of the path
basename(p) ==
  LET q == StripTrailingSlashes(p)
      s == LastIndexOf(q, "/", Len(q))
  IN  SubSeq(q, s + 1, Len(q))

\* path.extname, line 108: from the last dot of the last segment to its
\* end; empty when there is no dot, when the only dot is the segment's first
\* character, or when the segment is ".."
extname(p) ==
  LET b == basename(p)
      d == LastIndexOf(b, ".", Len(b))
  IN  IF d = 0 \/ d = 1 \/ b = <<".", ".">> THEN <<>>
      ELSE SubSeq(b, d, Len(b))

\* String.prototype.toLowerCase on one character
LowerChar(c) ==
  CASE c = "P" -> "p"
    [] c = "N" -> "n"
    [] c = "G" -> "g"
    [] OTHER   -> c

\* String.prototype.toLowerCase, line 108
toLowerCase(s) == [i \in DOMAIN s |-> LowerChar(s[i])]

DotPng == <<".", "p", "n", "g">>

\* IsPng without toLowerCase
IsPng_caseSensitive(p) == extname(p) = DotPng

\* the filter of line 108
IsPng(p) == toLowerCase(extname(p)) = DotPng

\* Ignored with the pattern anchored at the start of the path only
Ignored_startOnly(p) == Len(p) > 1 /\ p[1] = "."

\* the watcher's `ignored` pattern /(^|[\/\\])\../, line 39: a dot at the
\* start of the path or after a separator, followed by one more character
Ignored(p) ==
  \E i \in 1..(Len(p) - 1) :
     /\ p[i] = "."
     /\ (i = 1 \/ p[i - 1] = "/" \/ p[i - 1] = "\\")


\* ------------------------------------------------------------------ state
VARIABLES
  env,          \* process.env, restricted to the three required variables
  pc,           \* position in the module body; "running" once it has run
  envIdx,       \* index of the validation loop, lines 21-26
  client,       \* TRUE once `new Client` has run, line 29
  watcher,      \* TRUE once chokidar.watch has run, line 38
  listeners,    \* number of listeners registered per event
  loginState,   \* "none", "pending", "ok" or "failed"
  loginCalls,   \* number of client.login calls
  readyCount,   \* number of ClientReady deliveries
  verifs,       \* the runs of verifyChannelAccess
  watcherReady, \* TRUE once the watcher has emitted 'ready'
  files,        \* the paths that exist on disk
  watched,      \* the paths the watcher knows
  pending,      \* the paths whose 'add' the watcher is about to emit
  notifs,       \* the 'add' notifications emitted so far
  inv,          \* the invocations of the 'add' handler
  uploads,      \* the channel.send calls issued so far
  log,          \* the console: the bag of the lines written
  worldSteps    \* steps of the world so far

vars == <<env, pc, envIdx, client, watcher, listeners, loginState, loginCalls,
          readyCount, verifs, watcherReady, files, watched, pending, notifs,
          inv, uploads, log, worldSteps>>

loadVars  == <<pc, envIdx, client, watcher>>
loginVars == <<loginState, loginCalls, readyCount>>
fsVars    == <<files, watched, pending>>
evVars    == <<notifs, inv, uploads>>
worldVars == <<worldSteps>>

\* what channels.fetch can answer: a text channel, a channel of another
\* kind, null, or a rejection
ChannelKinds == {"text", "voice", "null", "throw"}

\* what channel.permissionsFor(client.user) can answer, line 79: null, or a
\* set of permission flags
Flags == {"SendMessages", "AttachFiles", "ViewChannel"}
NoPermissions == [isNull |-> TRUE, flags |-> {}]
PermissionAnswers ==
  {NoPermissions} \cup [isNull : {FALSE}, flags : SUBSET Flags]

\* one console line: the statement that wrote it, what it interpolates, and
\* the handler invocation (0: none) that wrote it
Line(tag, arg, h) == [tag |-> tag, arg |-> arg, h |-> h]

\* console.log, console.warn, console.error: one more line on the console
Write(l, line) == l (+) SetToBag({line})

\* debugLog, lines 13-17: DEBUG is true, so the line is written
debugLog(l, tag, arg, h) == Write(l, Line(tag, arg, h))

Init ==
  /\ env \in EnvValues
  /\ pc = "validate"
  /\ envIdx = 1
  /\ client = FALSE
  /\ watcher = FALSE
  /\ listeners = [clientReady |-> 0, add |-> 0, ready |-> 0, error |-> 0]
  /\ loginState = "none"
  /\ loginCalls = 0
  /\ readyCount = 0
  /\ verifs = <<>>
  /\ watcherReady = FALSE
  /\ files = {}
  /\ watched = {}
  /\ pending = {}
  /\ notifs = <<>>
  /\ inv = <<>>
  /\ uploads = <<>>
  /\ log = EmptyBag
  /\ worldSteps = 0

\* --------------------------------------------------------- the module body
\* MissingEnv with a test for an unset variable only
MissingEnv_undefinedOnly(v) == env[v] = Undefined

\* line 22: the value that makes the loop throw
MissingEnv(v) == Falsy(env[v])

\* ShownValue without the redaction of the credential
ShownValue_plain(v) == env[v]

\* line 25: what the diagnostic line shows for variable v
ShownValue(v) == IF v = "DISCORD_TOKEN" THEN "[HIDDEN]" ELSE env[v]

\* lines 21-26, one iteration: throw on a missing value (the uncaught
\* exception ends the process), else write the diagnostic line
ValidateStep ==
  /\ pc = "validate"
  /\ LET v == requiredEnvVars[envIdx] IN
       IF MissingEnv(v)
       THEN /\ pc' = "aborted"
            /\ log' = Write(log, Line("fatal:missingEnv", <<v>>, 0))
            /\ UNCHANGED envIdx
       ELSE /\ log' = debugLog(log, "debug:env", <<v, ShownValue(v)>>, 0)
            /\ IF envIdx = Len(requiredEnvVars)
               THEN pc' = "newClient" /\ UNCHANGED envIdx
               ELSE pc' = "validate" /\ envIdx' = envIdx + 1
  /\ UNCHANGED <<env, client, watcher, listeners, loginVars, verifs,
                 watcherReady, fsVars, evVars, worldVars>>

\* lines 29-35
NewClient ==
  /\ pc = "newClient"
  /\ client' = TRUE
  /\ pc' = "watch"
  /\ UNCHANGED <<env, envIdx, watcher, listeners, loginVars, verifs,
                 watcherReady, fsVars, evVars, worldVars, log>>

\* ListenersAtWatch with the 'add' listener registered with the watcher
ListenersAtWatch_addRegistered == [listeners EXCEPT !.add = 1, !.ready = 0]

\* the listeners the watcher has right after chokidar.watch, lines 38-45
ListenersAtWatch == [listeners EXCEPT !.add = 0, !.ready = 0]

\* lines 38-45
CreateWatcher ==
  /\ pc = "watch"
  /\ watcher' = TRUE
  /\ listeners' = ListenersAtWatch
  /\ pc' = "clientOn"
  /\ UNCHANGED <<env, envIdx, client, loginVars, verifs, watcherReady,
                 fsVars, evVars, worldVars, log>>

\* lines 48-64: client.on for Debug, Warn, Error and ClientReady
ClientOn ==
  /\ pc = "clientOn"
  /\ listeners' = [listeners EXCEPT !.clientReady = @ + 1]
  /\ pc' = "watcherOn"
  /\ UNCHANGED <<env, envIdx, client, watcher, loginVars, verifs,
                 watcherReady, fsVars, evVars, worldVars, log>>

\* lines 139-142: watcher.on('error')
WatcherOnError ==
  /\ pc = "watcherOn"
  /\ listeners' = [listeners EXCEPT !.error = @ + 1]
  /\ pc' = "login"
  /\ UNCHANGED <<env, envIdx, client, watcher, loginVars, verifs,
                 watcherReady, fsVars, evVars, worldVars, log>>

\* lines 145-146: the login call; its promise settles later
Login ==
  /\ pc = "login"
  /\ log' = Write(log, Line("connecting", <<>>, 0))
  /\ loginState' = "pending"
  /\ loginCalls' = loginCalls + 1
  /\ pc' = "running"
  /\ UNCHANGED <<env, envIdx, client, watcher, listeners, readyCount, verifs,
                 watcherReady, fsVars, evVars, worldVars>>


\* ------------------------------------------------------------- the session
\* the promise of client.login resolves
LoginSucceed ==
  /\ pc = "running"
  /\ loginState = "pending"
  /\ loginState' = "ok"
  /\ UNCHANGED <<env, loadVars, listeners, loginCalls, readyCount, verifs,
                 watcherReady, fsVars, evVars, worldVars, log>>

\* lines 146-149: the promise of client.login rejects; the catch callback
\* writes two lines and returns
LoginFail ==
  /\ pc = "running"
  /\ loginState = "pending"
  /\ loginState' = "failed"
  /\ log' = debugLog(Write(log, Line("loginFailed", <<>>, 0)),
                     "debug:loginError", <<>>, 0)
  /\ UNCHANGED <<env, loadVars, listeners, loginCalls, readyCount, verifs,
                 watcherReady, fsVars, evVars, worldVars>>

\* verifyChannelAccess up to its first await, lines 66-68: the fetch is
\* issued and the function returns its promise
StartVerify(vs) ==
  Append(vs, [pc |-> "fetch", answer |-> "none", perms |-> NoPermissions,
              outcome |-> "pending"])

\* setupFileWatcher, lines 97-136: one more 'ready' listener and one more
\* 'add' listener on the watcher
setupFileWatcher(l) == [l EXCEPT !.ready = @ + 1, !.add = @ + 1]

\* ClientReadyHandler with setupFileWatcher left to the verification
ClientReadyHandler_setupAfterVerify ==
  /\ readyCount' = readyCount + 1
  /\ verifs' = StartVerify(verifs)
  /\ log' = debugLog(Write(log, Line("loggedIn", <<>>, 0)),
                     "debug:botReady", <<>>, 0)
  /\ UNCHANGED <<env, loadVars, listeners, loginState, loginCalls,
                 watcherReady, fsVars, evVars, worldVars>>

\* lines 53-64: the ClientReady listener, whole: two lines written, the
\* verification started and not awaited, the watcher's listeners registered
ClientReadyHandler ==
  /\ readyCount' = readyCount + 1
  /\ verifs' = StartVerify(verifs)
  /\ listeners' = setupFileWatcher(listeners)
  /\ log' = debugLog(debugLog(Write(log, Line("loggedIn", <<>>, 0)),
                              "debug:botReady", <<>>, 0),
                     "debug:setup", <<env["WATCH_PATH"]>>, 0)
  /\ UNCHANGED <<env, loadVars, loginState, loginCalls, watcherReady,
                 fsVars, evVars, worldVars>>

\* the client emits ClientReady after a successful login
ClientReady ==
  /\ pc = "running"
  /\ loginState = "ok"
  /\ listeners.clientReady > 0
  /\ readyCount = 0
  /\ ClientReadyHandler

\* the client emits ClientReady once more
ClientReadyAgain ==
  /\ pc = "running"
  /\ loginState = "ok"
  /\ listeners.clientReady > 0
  /\ readyCount > 0
  /\ readyCount < MaxReady
  /\ ClientReadyHandler

\* VerifyOutcome with the permission test failing only when both flags are
\* missing
VerifyOutcome_bothMissing(kind, perms) ==
  CASE kind = "throw" -> "error"
    [] kind = "null"  -> "notFound"
    [] kind = "voice" -> "notText"
    [] OTHER ->
         IF perms.isNull
            \/ ("SendMessages" \notin perms.flags /\ "AttachFiles" \notin perms.flags)
         THEN "lacksPermissions"
         ELSE "verified"

\* the outcome of verifyChannelAccess after its fetch settled with answer
\* kind and permissionsFor answered perms, lines 68-94
VerifyOutcome(kind, perms) ==
  CASE kind = "throw" -> "error"
    [] kind = "null"  -> "notFound"
    [] kind = "voice" -> "notText"
    [] OTHER ->
         IF perms.isNull
            \/ "SendMessages" \notin perms.flags
            \/ "AttachFiles" \notin perms.flags
         THEN "lacksPermissions"
         ELSE "verified"

\* the lines verifyChannelAccess writes for that outcome
VerifyLines(l, kind, perms) ==
  LET o  == VerifyOutcome(kind, perms)
      l1 == IF kind = "text"
            THEN debugLog(l, "debug:permissions",
                          <<IF perms.isNull THEN "undefined"
                            ELSE IF "SendMessages" \in perms.flags
                                 THEN "true" ELSE "false",
                            IF perms.isNull THEN "undefined"
                            ELSE IF "AttachFiles" \in perms.flags
                                 THEN "true" ELSE "false",
                            IF perms.isNull THEN "undefined"
                            ELSE IF "ViewChannel" \in perms.flags
                                 THEN "true" ELSE "false">>, 0)
            ELSE l
  IN  Write(l1, Line("verify:" \o o, <<>>, 0))

\* lines 68-94: the fetch of verification run v settles with answer kind
\* and the run ends; permissionsFor is asked of a text channel only
VerifyReturn(v, kind, perms) ==
  /\ pc = "running"
  /\ v \in DOMAIN verifs
  /\ verifs[v].pc = "fetch"
  /\ kind # "text" => perms = NoPermissions
  /\ verifs' = [verifs EXCEPT ![v] =
                  [pc |-> "done", answer |-> kind, perms |-> perms,
                   outcome |-> VerifyOutcome(kind, perms)]]
  /\ log' = VerifyLines(log, kind, perms)
  /\ UNCHANGED <<env, loadVars, listeners, loginVars, watcherReady,
                 fsVars, evVars, worldVars>>

\* ------------------------------------------------------------- the watcher
\* another process creates file p
CreateFile(p) ==
  /\ pc = "running"
  /\ worldSteps < MaxWorldSteps
  /\ p \notin files
  /\ files' = files \cup {p}
  /\ worldSteps' = worldSteps + 1
  /\ UNCHANGED <<env, loadVars, listeners, loginVars, verifs, watcherReady,
                 watched, pending, evVars, log>>

\* another process deletes file p
DeleteFile(p) ==
  /\ pc = "running"
  /\ worldSteps < MaxWorldSteps
  /\ p \in files
  /\ files' = files \ {p}
  /\ worldSteps' = worldSteps + 1
  /\ UNCHANGED <<env, loadVars, listeners, loginVars, verifs, watcherReady,
                 watched, pending, evVars, log>>

\* lines 38-45: the watcher finds a file it does not know, not excluded by
\* `ignored`, and waits for its size to settle (awaitWriteFinish)
WatcherDetect(p) ==
  /\ pc = "running"
  /\ watcher
  /\ p \in files \ watched
  /\ ~Ignored(p)
  /\ Len(notifs) + Cardinality(pending) < MaxEvents
  /\ watched' = watched \cup {p}
  /\ pending' = pending \cup {p}
  /\ UNCHANGED <<env, loadVars, listeners, loginVars, verifs, watcherReady,
                 files, evVars, worldVars, log>>

\* the watcher finds that a file it knows is gone
WatcherUnlink(p) ==
  /\ pc = "running"
  /\ watcher
  /\ p \in watched \ files
  /\ watched' = watched \ {p}
  /\ pending' = pending \ {p}
  /\ UNCHANGED <<env, loadVars, listeners, loginVars, verifs, watcherReady,
                 files, evVars, worldVars, log>>

\* the watcher ends its initial scan and emits 'ready': every listener
\* registered for it (line 100) writes its line (line 101)
RECURSIVE Repeat(_, _, _)
Repeat(l, e, k) == IF k = 0 THEN l ELSE Repeat(Write(l, e), e, k - 1)

WatcherReady ==
  /\ pc = "running"
  /\ watcher
  /\ ~watcherReady
  /\ watcherReady' = TRUE
  /\ log' = Repeat(log, Line("watcherReady", <<>>, 0), listeners.ready)
  /\ UNCHANGED <<env, loadVars, listeners, loginVars, verifs,
                 fsVars, evVars, worldVars>>

\* lines 139-142: the watcher emits 'error'; the listener writes two lines
WatcherError ==
  /\ pc = "running"
  /\ watcher
  /\ listeners.error > 0
  /\ worldSteps < MaxWorldSteps
  /\ worldSteps' = worldSteps + 1
  /\ log' = debugLog(Write(log, Line("watcherError", <<>>, 0)),
                     "debug:watcherError", <<>>, 0)
  /\ UNCHANGED <<env, loadVars, listeners, loginVars, verifs, watcherReady,
                 fsVars, evVars>>

\* lines 48-50: the client emits Debug, Warn or Error; the listener of each
\* writes one line
ClientDiag ==
  /\ pc = "running"
  /\ client
  /\ listeners.clientReady > 0
  /\ worldSteps < MaxWorldSteps
  /\ worldSteps' = worldSteps + 1
  /\ log' = Write(log, Line("discord", <<>>, 0))
  /\ UNCHANGED <<env, loadVars, listeners, loginVars, verifs, watcherReady,
                 fsVars, evVars>>

\* ------------------------------------------------------ the 'add' handler
\* HandlerStart without the existsSync test of line 111
HandlerStart_noExistsCheck(h, n, p, exists) ==
  [n |-> n, path |-> p, existed |-> exists,
   fetches |-> IF IsPng(p) THEN 1 ELSE 0, answer |-> "none",
   pc |-> IF IsPng(p) THEN "fetch" ELSE "done",
   outcome |-> IF ~IsPng(p) THEN "ignored" ELSE "pending"]

\* lines 105-116, the handler up to its first await, for invocation h of
\* notification n with path p; exists is what existsSync(p) answers.
\* The invocation's record after that part: existed keeps that answer,
\* fetches counts the calls of channels.fetch, answer is what the fetch
\* settled with ("none" before)
HandlerStart(h, n, p, exists) ==
  [n |-> n, path |-> p, existed |-> exists,
   fetches |-> IF IsPng(p) /\ exists THEN 1 ELSE 0, answer |-> "none",
   pc |-> IF IsPng(p) /\ exists THEN "fetch" ELSE "done",
   outcome |-> IF ~IsPng(p) THEN "ignored"
               ELSE IF ~exists THEN "gone" ELSE "pending"]

\* the lines that part writes
HandlerStartLines(l, h, p, exists) ==
  LET l1 == debugLog(l, "debug:fileDetected", p, h)
      l2 == IF IsPng(p) THEN Write(l1, Line("newPng", p, h)) ELSE l1
  IN  IF IsPng(p) /\ ~exists THEN Write(l2, Line("gone", p, h)) ELSE l2

RECURSIVE StartAll(_, _, _, _, _)
\* k listeners run one after the other: the invocations appended to iv
StartAll(iv, k, n, p, exists) ==
  IF k = 0 THEN iv
  ELSE StartAll(Append(iv, HandlerStart(Len(iv) + 1, n, p, exists)),
                k - 1, n, p, exists)

RECURSIVE StartAllLines(_, _, _, _, _)
\* and the lines they write; first is the number of the first invocation
StartAllLines(l, first, k, p, exists) ==
  IF k = 0 THEN l
  ELSE StartAllLines(HandlerStartLines(l, first, p, exists),
                     first + 1, k - 1, p, exists)

\* WatcherEmitAdd with a notification kept for a handler even when no
\* listener is registered yet
WatcherEmitAdd_kept(p) ==
  LET k == IF listeners.add = 0 THEN 1 ELSE listeners.add
  IN  /\ pc = "running"
      /\ watcher
      /\ p \in pending
      /\ pending' = pending \ {p}
      /\ notifs' = Append(notifs, [path |-> p, listeners |-> listeners.add,
                                    ready |-> readyCount])
      /\ inv' = StartAll(inv, k, Len(notifs) + 1, p, p \in files)
      /\ log' = StartAllLines(log, Len(inv) + 1, k, p, p \in files)
      /\ UNCHANGED <<env, loadVars, listeners, loginVars, verifs,
                     watcherReady, files, watched, uploads, worldVars>>

\* the watcher emits 'add' for p: every listener registered for it (line
\* 104) runs up to its first await; with no listener the notification is
\* lost.  The notification's record keeps the number of listeners and of
\* ClientReady deliveries at that moment.
WatcherEmitAdd(p) ==
  /\ pc = "running"
  /\ watcher
  /\ p \in pending
  /\ pending' = pending \ {p}
  /\ notifs' = Append(notifs, [path |-> p, listeners |-> listeners.add,
                                ready |-> readyCount])
  /\ inv' = StartAll(inv, listeners.add, Len(notifs) + 1, p, p \in files)
  /\ log' = StartAllLines(log, Len(inv) + 1, listeners.add, p, p \in files)
  /\ UNCHANGED <<env, loadVars, listeners, loginVars, verifs, watcherReady,
                 files, watched, uploads, worldVars>>

\* Sendable without the instanceof test
Sendable_anyChannel(kind) == kind # "null" /\ kind # "throw"

\* line 117: the answers of channels.fetch the handler goes on with
Sendable(kind) == kind = "text"

\* lines 131-134: the catch block writes two lines
CatchLines(l, h) ==
  debugLog(Write(l, Line("processingError", <<>>, h)), "debug:errorDetails", <<>>, h)

\* SendCall with the path as the display name
SendCall_fullPathName(h) ==
  [h |-> h, n |-> inv[h].n, attachment |-> inv[h].path, name |-> inv[h].path,
   present |-> inv[h].path \in files]

\* lines 122-127: the call of channel.send for invocation h; present keeps
\* whether the file was on disk when the call was made
SendCall(h) ==
  [h |-> h, n |-> inv[h].n, attachment |-> inv[h].path,
   name |-> basename(inv[h].path), present |-> inv[h].path \in files]

\* HandlerFetchReturn with the handlers run one at a time: the continuation
\* waits while another invocation is between its channel.send and its end
HandlerFetchReturn_exclusive(h, kind) ==
  /\ \A g \in DOMAIN inv : g # h => inv[g].pc \notin {"send", "sent"}
  /\ pc = "running"
  /\ h \in DOMAIN inv
  /\ inv[h].pc = "fetch"
  /\ IF Sendable(kind)
     THEN /\ inv' = [inv EXCEPT ![h].pc = "send", ![h].answer = kind]
          /\ uploads' = Append(uploads, SendCall(h))
          /\ log' = debugLog(log, "debug:sending", <<>>, h)
     ELSE /\ inv' = [inv EXCEPT ![h].pc = "done", ![h].answer = kind,
                                   ![h].outcome = "error"]
          /\ log' = CatchLines(log, h)
          /\ UNCHANGED uploads
  /\ UNCHANGED <<env, loadVars, listeners, loginVars, verifs, watcherReady,
                 fsVars, notifs, worldVars>>

\* HandlerFetchReturn with existsSync asked again before channel.send
HandlerFetchReturn_recheck(h, kind) ==
  /\ pc = "running"
  /\ h \in DOMAIN inv
  /\ inv[h].pc = "fetch"
  /\ IF Sendable(kind) /\ inv[h].path \in files
     THEN /\ inv' = [inv EXCEPT ![h].pc = "send", ![h].answer = kind]
          /\ uploads' = Append(uploads, SendCall(h))
          /\ log' = debugLog(log, "debug:sending", <<>>, h)
     ELSE /\ inv' = [inv EXCEPT ![h].pc = "done", ![h].answer = kind,
                                   ![h].outcome = "error"]
          /\ log' = CatchLines(log, h)
          /\ UNCHANGED uploads
  /\ UNCHANGED <<env, loadVars, listeners, loginVars, verifs, watcherReady,
                 fsVars, notifs, worldVars>>

\* UploadRead with the success line written as soon as the attachment is
\* read, before channel.send has settled
UploadRead_logsEarly(h) ==
  /\ pc = "running"
  /\ h \in DOMAIN inv
  /\ inv[h].pc = "send"
  /\ IF inv[h].path \in files
     THEN /\ inv' = [inv EXCEPT ![h].pc = "sent"]
          /\ log' = Write(log, Line("posted", inv[h].path, h))
     ELSE /\ inv' = [inv EXCEPT ![h].pc = "done", ![h].outcome = "error"]
          /\ log' = CatchLines(log, h)
  /\ UNCHANGED <<env, loadVars, listeners, loginVars, verifs, watcherReady,
                 fsVars, notifs, uploads, worldVars>>

\* HandlerFetchReturn with the channel of a passed verification reused
\* instead of the answer of the invocation's own fetch
HandlerFetchReturn_cached(h, kind) ==
  /\ pc = "running"
  /\ h \in DOMAIN inv
  /\ inv[h].pc = "fetch"
  /\ IF Sendable(kind) \/ (\E v \in DOMAIN verifs : verifs[v].outcome = "verified")
     THEN /\ inv' = [inv EXCEPT ![h].pc = "send", ![h].answer = kind]
          /\ uploads' = Append(uploads, SendCall(h))
          /\ log' = debugLog(log, "debug:sending", <<>>, h)
     ELSE /\ inv' = [inv EXCEPT ![h].pc = "done", ![h].answer = kind,
                                   ![h].outcome = "error"]
          /\ log' = CatchLines(log, h)
          /\ UNCHANGED uploads
  /\ UNCHANGED <<env, loadVars, listeners, loginVars, verifs, watcherReady,
                 fsVars, notifs, worldVars>>

\* lines 116-127: the fetch of invocation h settles with answer kind; a
\* rejection, null or a channel of another kind ends in the catch block, a
\* text channel in the call of channel.send
HandlerFetchReturn(h, kind) ==
  /\ pc = "running"
  /\ h \in DOMAIN inv
  /\ inv[h].pc = "fetch"
  /\ IF Sendable(kind)
     THEN /\ inv' = [inv EXCEPT ![h].pc = "send", ![h].answer = kind]
          /\ uploads' = Append(uploads, SendCall(h))
          /\ log' = debugLog(log, "debug:sending", <<>>, h)
     ELSE /\ inv' = [inv EXCEPT ![h].pc = "done", ![h].answer = kind,
                                   ![h].outcome = "error"]
          /\ log' = CatchLines(log, h)
          /\ UNCHANGED uploads
  /\ UNCHANGED <<env, loadVars, listeners, loginVars, verifs, watcherReady,
                 fsVars, notifs, worldVars>>

\* the client library opens the attachment of invocation h's channel.send:
\* a file that is gone rejects the call, which ends in the catch block
UploadRead(h) ==
  /\ pc = "running"
  /\ h \in DOMAIN inv
  /\ inv[h].pc = "send"
  /\ IF inv[h].path \in files
     THEN /\ inv' = [inv EXCEPT ![h].pc = "sent"]
          /\ UNCHANGED log
     ELSE /\ inv' = [inv EXCEPT ![h].pc = "done", ![h].outcome = "error"]
          /\ log' = CatchLines(log, h)
  /\ UNCHANGED <<env, loadVars, listeners, loginVars, verifs, watcherReady,
                 fsVars, notifs, uploads, worldVars>>

\* UploadReturn with one more attempt after a rejection
UploadReturn_retry(h, ok) ==
  /\ pc = "running"
  /\ h \in DOMAIN inv
  /\ inv[h].pc = "sent"
  /\ inv' = IF ok THEN [inv EXCEPT ![h].pc = "done", ![h].outcome = "success"]
            ELSE IF inv[h].fetches < 2
            THEN [inv EXCEPT ![h].pc = "fetch", ![h].fetches = @ + 1]
            ELSE [inv EXCEPT ![h].pc = "done", ![h].outcome = "error"]
  /\ log' = IF ok THEN Write(log, Line("posted", inv[h].path, h))
            ELSE CatchLines(log, h)
  /\ UNCHANGED <<env, loadVars, listeners, loginVars, verifs, watcherReady,
                 fsVars, notifs, uploads, worldVars>>

\* lines 122-134: the promise of channel.send settles: line 129 on success,
\* the catch block on a rejection
UploadReturn(h, ok) ==
  /\ pc = "running"
  /\ h \in DOMAIN inv
  /\ inv[h].pc = "sent"
  /\ inv' = [inv EXCEPT ![h].pc = "done",
                        ![h].outcome = IF ok THEN "success" ELSE "error"]
  /\ log' = IF ok THEN Write(log, Line("posted", inv[h].path, h))
            ELSE CatchLines(log, h)
  /\ UNCHANGED <<env, loadVars, listeners, loginVars, verifs, watcherReady,
                 fsVars, notifs, uploads, worldVars>>

\* ------------------------------------------------------- specifications
\* the bound on handler invocations: MaxEvents notifications, each to at
\* most MaxReady listeners
Invocations == 1..(MaxEvents * MaxReady)

Next ==
  \/ ValidateStep
  \/ NewClient
  \/ CreateWatcher
  \/ ClientOn
  \/ WatcherOnError
  \/ Login
  \/ LoginSucceed
  \/ LoginFail
  \/ ClientReady
  \/ \E v \in 1..MaxReady, k \in ChannelKinds, q \in PermissionAnswers :
        VerifyReturn(v, k, q)
  \/ \E p \in Paths : CreateFile(p)
  \/ \E p \in Paths : DeleteFile(p)
  \/ \E p \in Paths : WatcherDetect(p)
  \/ \E p \in Paths : WatcherUnlink(p)
  \/ WatcherReady
  \/ WatcherError
  \/ ClientDiag
  \/ \E p \in Paths : WatcherEmitAdd(p)
  \/ \E h \in Invocations, k \in ChannelKinds : HandlerFetchReturn(h, k)
  \/ \E h \in Invocations : UploadRead(h)
  \/ \E h \in Invocations, ok \in BOOLEAN : UploadReturn(h, ok)

\* the client emits ClientReady once per login, and index.ts logs in once
Spec == Init /\ [][Next]_vars

\* The same program started with more credentials: two that differ from
\* every other value of the configuration and one that equals the channel id.
EnvValuesCredentials ==
  [DISCORD_TOKEN : {Undefined, "", "tok", "tok2", "c1"},
   CHANNEL_ID    : {Undefined, "", "c1"},
   WATCH_PATH    : {Undefined, "", "w"}]

InitCredentials ==
  /\ env \in EnvValuesCredentials
  /\ pc = "validate"
  /\ envIdx = 1
  /\ client = FALSE
  /\ watcher = FALSE
  /\ listeners = [clientReady |-> 0, add |-> 0, ready |-> 0, error |-> 0]
  /\ loginState = "none"
  /\ loginCalls = 0
  /\ readyCount = 0
  /\ verifs = <<>>
  /\ watcherReady = FALSE
  /\ files = {}
  /\ watched = {}
  /\ pending = {}
  /\ notifs = <<>>
  /\ inv = <<>>
  /\ uploads = <<>>
  /\ log = EmptyBag
  /\ worldSteps = 0

SpecCredentials == InitCredentials /\ [][Next]_vars

\* The same program with a client that may emit ClientReady again.  Its
\* behaviours are behaviours of the program under such a client; to keep
\* them few, the world only creates files, the watcher emits one 'add' and
\* permissionsFor answers null.
NextReReady ==
  \/ ValidateStep
  \/ NewClient
  \/ CreateWatcher
  \/ ClientOn
  \/ WatcherOnError
  \/ Login
  \/ LoginSucceed
  \/ LoginFail
  \/ ClientReady
  \/ ClientReadyAgain
  \/ \E v \in 1..MaxReady, k \in ChannelKinds : VerifyReturn(v, k, NoPermissions)
  \/ \E p \in Paths : CreateFile(p)
  \/ \E p \in Paths : WatcherDetect(p)
  \/ WatcherReady
  \/ \E p \in Paths : notifs = <<>> /\ WatcherEmitAdd(p)
  \/ \E h \in Invocations, k \in ChannelKinds : HandlerFetchReturn(h, k)
  \/ \E h \in Invocations : UploadRead(h)
  \/ \E h \in Invocations, ok \in BOOLEAN : UploadReturn(h, ok)

SpecReReady == Init /\ [][NextReReady]_vars


\* the awaits of the 'add' listener (lines 116 and 122) under the assumption
\* that every channels.fetch and every channel.send settles: an invocation
\* that waits for one is resumed
Settles(h) ==
  /\ WF_vars(\E k \in ChannelKinds : HandlerFetchReturn(h, k))
  /\ WF_vars(UploadRead(h))
  /\ WF_vars(\E ok \in BOOLEAN : UploadReturn(h, ok))

SpecFair == Spec /\ \A h \in Invocations : Settles(h)

\* ----------------------------------------------------------------- claims
\* the upload calls issued for notification n, for invocation h
UploadsOf(n) == {i \in DOMAIN uploads : uploads[i].n = n}
UploadsBy(h) == {i \in DOMAIN uploads : uploads[i].h = h}

\* the handler invocations of notification n
InvocationsOf(n) == {h \in DOMAIN inv : inv[h].n = n}

\* the first required variable that is missing or empty (0: none)
FirstMissing ==
  IF \E i \in DOMAIN requiredEnvVars : Falsy(env[requiredEnvVars[i]])
  THEN CHOOSE i \in DOMAIN requiredEnvVars :
         /\ Falsy(env[requiredEnvVars[i]])
         /\ \A j \in 1..(i - 1) : ~Falsy(env[requiredEnvVars[j]])
  ELSE 0

\* C1: when one of the three required values is missing or empty, the module
\* body never gets past the validation of that value: no client is
\* constructed, no watcher is created, login is not called, nothing is
\* registered or watched, and the validation ends in the fatal error that
\* names the value.
C1_MissingConfigAborts ==
  FirstMissing # 0 =>
    /\ pc \in {"validate", "aborted"}
    /\ envIdx <= FirstMissing
    /\ ~client /\ ~watcher
    /\ loginCalls = 0 /\ loginState = "none" /\ readyCount = 0
    /\ listeners = [clientReady |-> 0, add |-> 0, ready |-> 0, error |-> 0]
    /\ watched = {} /\ notifs = <<>> /\ uploads = <<>> /\ verifs = <<>>
    /\ pc = "aborted" =>
         BagIn(Line("fatal:missingEnv", <<requiredEnvVars[FirstMissing]>>, 0), log)

\* C1's case: the credential and the channel id are set, the watch path is
\* empty, and the process has aborted on it.
C1_Witness ==
  /\ pc = "aborted"
  /\ env["DISCORD_TOKEN"] = "tok" /\ env["CHANNEL_ID"] = "c1"
  /\ env["WATCH_PATH"] = ""
  /\ envIdx = 3

\* C2: no 'add' handler runs, fetches the channel or issues an upload call
\* unless the login has succeeded and the client has become ready; while the
\* login is pending or has failed there is no invocation and no upload.
C2_NoEventBeforeAuthentication ==
  /\ (inv # <<>> \/ uploads # <<>>) => (loginState = "ok" /\ readyCount > 0)
  /\ listeners.add > 0 => loginState = "ok"
  /\ \A n \in DOMAIN notifs : notifs[n].listeners > 0 => loginState = "ok"

\* C2's case: the watcher has emitted an 'add' for a qualifying file that
\* exists while the login has failed.
C2_Witness ==
  /\ loginState = "failed"
  /\ \E n \in DOMAIN notifs : notifs[n].path = P_png /\ P_png \in files

\* the last four characters of p are ".png" in any mix of cases
EndsWithDotPng(p) ==
  /\ Len(p) >= 4
  /\ p[Len(p) - 3] = "."
  /\ p[Len(p) - 2] \in {"p", "P"}
  /\ p[Len(p) - 1] \in {"n", "N"}
  /\ p[Len(p)] \in {"g", "G"}

\* C3: an invocation of the 'add' handler goes on to the existence check
\* (and from there to the fetch and the upload) exactly when its path ends in
\* ".png" in any mix of cases; an invocation for another path ends ignored,
\* with no fetch, no upload call and only the debug line written.
C3_PngFilter ==
  /\ \A h \in DOMAIN inv :
       /\ inv[h].outcome # "ignored" <=> EndsWithDotPng(inv[h].path)
       /\ CopiesIn(Line("newPng", inv[h].path, h), log)
            = IF EndsWithDotPng(inv[h].path) THEN 1 ELSE 0
       /\ ~EndsWithDotPng(inv[h].path) =>
            /\ inv[h].pc = "done" /\ inv[h].fetches = 0
            /\ UploadsBy(h) = {}
            /\ CopiesIn(Line("gone", inv[h].path, h), log) = 0
  /\ \A i \in DOMAIN uploads : EndsWithDotPng(uploads[i].attachment)

\* C3's case: a.PNG has been handled past the filter and a.png.bak has been
\* ignored.
C3_Witness ==
  \E h1, h2 \in DOMAIN inv :
     /\ inv[h1].path = P_PNG /\ inv[h1].fetches = 1
     /\ inv[h2].path = P_bak /\ inv[h2].outcome = "ignored"


\* name is the last segment of p: it holds no separator and p is a
\* directory, a separator and name
IsBaseNameOf(name, p) ==
  /\ Len(name) >= 1 /\ Len(name) < Len(p)
  /\ \A i \in DOMAIN name : name[i] # "/"
  /\ p[Len(p) - Len(name)] = "/"
  /\ SubSeq(p, Len(p) - Len(name) + 1, Len(p)) = name

\* C4: with the client ready, a notification for a qualifying file that
\* exists when handled and whose channel fetch answers a text channel has
\* exactly one upload call, for that path, named by the path's last segment;
\* every notification has one handler invocation per registered listener (at
\* most one) and at most one upload call.
C4_OneUploadWithBaseName ==
  /\ \A h \in DOMAIN inv :
       (EndsWithDotPng(inv[h].path) /\ inv[h].existed /\ inv[h].answer = "text") =>
         /\ Cardinality(UploadsOf(inv[h].n)) = 1
         /\ \A i \in UploadsOf(inv[h].n) :
              /\ uploads[i].h = h
              /\ uploads[i].attachment = inv[h].path
              /\ IsBaseNameOf(uploads[i].name, inv[h].path)
  /\ \A n \in DOMAIN notifs :
       /\ Cardinality(UploadsOf(n)) <= 1
       /\ Cardinality(InvocationsOf(n)) = notifs[n].listeners
       /\ notifs[n].listeners <= 1

\* C4's case: w/a.png has been uploaded under the name a.png and the handler
\* has logged the success.
C4_Witness ==
  \E h \in DOMAIN inv :
     /\ inv[h].path = P_png /\ inv[h].outcome = "success"
     /\ \E i \in UploadsBy(h) : uploads[i].name = <<"a", ".", "p", "n", "g">>

\* C5: an invocation for a qualifying path that is gone when existsSync asks
\* ends at once: one "no longer exists" line, no channel fetch, no upload
\* call, no success line, and it stays ended.
C5_DeletedFileAbandoned ==
  \A h \in DOMAIN inv :
     (EndsWithDotPng(inv[h].path) /\ ~inv[h].existed) =>
       /\ inv[h].pc = "done" /\ inv[h].outcome = "gone"
       /\ inv[h].fetches = 0 /\ inv[h].answer = "none"
       /\ UploadsBy(h) = {} /\ UploadsOf(inv[h].n) = {}
       /\ CopiesIn(Line("gone", inv[h].path, h), log) = 1
       /\ CopiesIn(Line("posted", inv[h].path, h), log) = 0

\* C5's case: w/a.png was deleted after the watcher noticed it and before
\* the handler ran.
C5_Witness ==
  \E h \in DOMAIN inv :
     /\ inv[h].path = P_png /\ ~inv[h].existed /\ inv[h].outcome = "gone"
     /\ P_png \notin files

\* a channel fetch that did not answer a text channel
FailedAnswers == {"throw", "null", "voice"}

\* C6: an invocation whose channel fetch rejects, answers null or answers a
\* channel of another kind ends with one error line and no upload call; the
\* 'add' listener stays registered, and an invocation whose fetch answers a
\* text channel has its upload call whatever happened before.
C6_ChannelResolutionFailure ==
  /\ \A h \in DOMAIN inv :
       inv[h].answer \in FailedAnswers =>
         /\ inv[h].pc = "done" /\ inv[h].outcome = "error"
         /\ UploadsBy(h) = {} /\ UploadsOf(inv[h].n) = {}
         /\ CopiesIn(Line("processingError", <<>>, h), log) = 1
         /\ CopiesIn(Line("posted", inv[h].path, h), log) = 0
         /\ pc = "running" /\ watcher /\ listeners.add >= 1
  /\ \A h \in DOMAIN inv :
       inv[h].answer = "text" => Cardinality(UploadsBy(h)) = 1

\* C6's case: one event failed at the channel fetch and a later event was
\* uploaded.
C6_Witness ==
  \E h1, h2 \in DOMAIN inv :
     /\ h1 < h2 /\ inv[h1].n < inv[h2].n
     /\ inv[h1].answer = "null" /\ inv[h1].outcome = "error"
     /\ inv[h2].answer = "text" /\ inv[h2].outcome = "success"
     /\ UploadsBy(h2) # {}

\* C7, in every state: a notification has at most one handler invocation,
\* one channel fetch and one upload call; an invocation that failed has ended
\* with exactly one error line and no success line, and the process, the
\* watcher, its 'add' listener and the session are still there.
C7_FailureContained ==
  /\ \A n \in DOMAIN notifs :
       /\ Cardinality(InvocationsOf(n)) <= 1
       /\ Cardinality(UploadsOf(n)) <= 1
       /\ \A h \in InvocationsOf(n) : inv[h].fetches <= 1
  /\ \A h \in DOMAIN inv :
       inv[h].outcome = "error" =>
         /\ inv[h].pc = "done"
         /\ CopiesIn(Line("processingError", <<>>, h), log) = 1
         /\ CopiesIn(Line("posted", inv[h].path, h), log) = 0
         /\ pc = "running" /\ watcher /\ listeners.add = 1 /\ loginState = "ok"

\* C7, in every step: an invocation that has ended stays as it is, and a step
\* of one invocation changes no other invocation.
C7_StepIsolated ==
  \A h \in DOMAIN inv :
     /\ h \in DOMAIN inv'
     /\ inv[h].pc = "done" => inv'[h] = inv[h]
     /\ inv'[h] # inv[h] => \A g \in DOMAIN inv \ {h} : inv'[g] = inv[g]

\* C7: every failure of one event is caught and logged, the event is dropped
\* without retry, and no other event, nor the watcher, nor the session is
\* affected.
C7_EventFailureDropped == []C7_FailureContained /\ [][C7_StepIsolated]_vars

\* C7's case: the upload of one event was rejected and a later event was
\* uploaded with success.
C7_Witness ==
  \E h1, h2 \in DOMAIN inv :
     /\ h1 < h2
     /\ inv[h1].outcome = "error" /\ UploadsBy(h1) # {}
     /\ inv[h2].outcome = "success"


\* the process is gone: the only way index.ts ends is the uncaught exception
\* of line 23 (nothing calls process.exit, and the watcher of line 38 is
\* persistent, which keeps the event loop alive)
ProcessEnded == pc = "aborted"

\* C8: after a failed login the failure is logged, login was called once and
\* the process has ended.
C8_LoginFailureExits ==
  loginState = "failed" =>
    /\ CopiesIn(Line("loginFailed", <<>>, 0), log) = 1
    /\ loginCalls = 1
    /\ ProcessEnded

\* C9: however often the client emits ClientReady, the watcher has at most
\* one 'add' listener, the verification ran at most once, and no notification
\* is handled by more than one invocation.
C9_ReadinessHandledOnce ==
  /\ listeners.add <= 1
  /\ Len(verifs) <= 1
  /\ \A n \in DOMAIN notifs : Cardinality(InvocationsOf(n)) <= 1

\* C10, in every state: once the ClientReady listener has run, the watcher's
\* listeners are registered, whatever the state or outcome of the
\* verification it started.
C10_SetupRegardless ==
  \A v \in DOMAIN verifs :
     /\ verifs[v].pc \in {"fetch", "done"}
     /\ listeners.add >= 1 /\ listeners.ready >= 1
     /\ CopiesIn(Line("debug:setup", <<env["WATCH_PATH"]>>, 0), log) >= 1

\* C10, in every step: once the ClientReady listener has run, every 'add'
\* the watcher emits starts a handler invocation, with the verification
\* pending or ended in any way.
C10_EventsHandled ==
  (verifs # <<>> /\ Len(notifs') = Len(notifs) + 1) =>
     /\ Len(inv') = Len(inv) + 1
     /\ inv'[Len(inv')].n = Len(notifs')
     /\ EndsWithDotPng(inv'[Len(inv')].path) => inv'[Len(inv')].outcome # "ignored"

\* C10: the verification gates nothing: the watcher is set up in the step
\* that starts it, and events are handled from then on.
C10_VerificationAdvisory == []C10_SetupRegardless /\ [][C10_EventsHandled]_vars

\* C10's case: an event has been uploaded with success while the
\* verification was still waiting for its fetch.
C10_Witness ==
  /\ verifs # <<>> /\ verifs[1].pc = "fetch"
  /\ \E h \in DOMAIN inv : inv[h].outcome = "success"


\* C11: the watcher exists only once the login has succeeded, and it is
\* created once.
C11_WatcherAfterAuthentication ==
  watcher => loginState = "ok"

\* p has a segment that begins with a dot
HasDotSegment(p) ==
  \E i \in DOMAIN p : p[i] = "." /\ (i = 1 \/ p[i - 1] = "/")

\* C12: a path with a segment that begins with a dot is never known to the
\* watcher, never notified, never handled and never uploaded, whatever its
\* extension.
C12_DotfilesIgnored ==
  /\ \A p \in watched \cup pending : ~HasDotSegment(p)
  /\ \A n \in DOMAIN notifs : ~HasDotSegment(notifs[n].path)
  /\ \A h \in DOMAIN inv : ~HasDotSegment(inv[h].path)
  /\ \A i \in DOMAIN uploads : ~HasDotSegment(uploads[i].attachment)

\* C12's case: w/.h.png exists, the 'add' listener is registered, the watcher
\* has ended its scan, and another file created in the same run was handled.
C12_Witness ==
  /\ P_hidden \in files
  /\ listeners.add = 1 /\ watcherReady
  /\ \E h \in DOMAIN inv : inv[h].outcome = "success"


\* the validation line of variable v, written without reading the credential
RedactedEnvLine(v) ==
  <<v, IF v = "DISCORD_TOKEN" THEN "[HIDDEN]" ELSE env[v]>>

RedactedEnvLines == {RedactedEnvLine(requiredEnvVars[i]) : i \in DOMAIN requiredEnvVars}

\* s holds the string v
Holds(s, v) == \E i \in DOMAIN s : s[i] = v

\* C13: every line on the console is one that can be written without reading
\* the credential: the validation line of the credential shows the redaction
\* marker, the other validation lines show the channel id and the watch path,
\* and every other line interpolates a variable's name, the watch path, a
\* file path, permission flags or nothing.  So a credential that differs from
\* the other two values appears in no line.  One validation line is written
\* per value checked.
C13_CredentialRedacted ==
  /\ \A l \in BagToSet(log) :
       /\ l.tag = "debug:env" => l.arg \in RedactedEnvLines
       /\ l.tag = "fatal:missingEnv" =>
            \E i \in DOMAIN requiredEnvVars : l.arg = <<requiredEnvVars[i]>>
       /\ l.tag = "debug:setup" => l.arg = <<env["WATCH_PATH"]>>
       /\ l.tag = "debug:permissions" =>
            \A i \in DOMAIN l.arg : l.arg[i] \in {"true", "false", "undefined"}
       /\ l.tag \in {"debug:fileDetected", "newPng", "gone", "posted"} =>
            l.arg \in Paths
       /\ l.tag \notin {"debug:env", "fatal:missingEnv", "debug:setup",
                        "debug:permissions", "debug:fileDetected", "newPng",
                        "gone", "posted"} => l.arg = <<>>
       /\ env["DISCORD_TOKEN"] \notin {env["CHANNEL_ID"], env["WATCH_PATH"], "", Undefined}
            => ~Holds(l.arg, env["DISCORD_TOKEN"])
  /\ \A i \in DOMAIN requiredEnvVars :
       CopiesIn(Line("debug:env", RedactedEnvLine(requiredEnvVars[i]), 0), log)
         = IF (pc = "validate" /\ envIdx <= i) \/ (pc = "aborted" /\ envIdx <= i)
           THEN 0 ELSE 1

\* C13's case: the credential tok2 has passed the validation, the client is
\* ready, and an event has been handled to its end.
C13_Witness ==
  /\ env["DISCORD_TOKEN"] = "tok2"
  /\ readyCount = 1
  /\ \E h \in DOMAIN inv : inv[h].outcome = "success"


\* C14: every invocation that passes the filter and the existence check
\* issues its own channel fetch, and its fate follows from that fetch's
\* answer alone: an upload call is issued only after the invocation's own
\* fetch answered a text channel, and an answer that is no text channel ends
\* the invocation in an error, whatever the verification found at startup.
C14_FreshResolutionPerEvent ==
  /\ \A h \in DOMAIN inv :
       /\ inv[h].fetches = IF EndsWithDotPng(inv[h].path) /\ inv[h].existed THEN 1 ELSE 0
       /\ inv[h].answer \in FailedAnswers =>
            inv[h].outcome = "error" /\ UploadsBy(h) = {}
       /\ inv[h].outcome = "success" => inv[h].answer = "text"
       /\ inv[h].answer # "none" => inv[h].fetches = 1
  /\ \A i \in DOMAIN uploads :
       uploads[i].h \in DOMAIN inv /\ inv[uploads[i].h].answer = "text"

\* C14's case: the verification passed, and an event handled later found no
\* channel and failed.
C14_Witness ==
  /\ verifs # <<>> /\ verifs[1].outcome = "verified"
  /\ \E h \in DOMAIN inv :
       inv[h].existed /\ inv[h].answer = "null" /\ inv[h].outcome = "error"

\* the number of lines of the console with tag t and no argument
Copies(t) == CopiesIn(Line(t, <<>>, 0), log)

\* C15: a verification that has ended wrote the success line exactly when
\* its fetch answered a text channel and permissionsFor answered flags that
\* hold SendMessages and AttachFiles (ViewChannel plays no part); otherwise
\* it wrote exactly one error line and no success line.  A verification that
\* is still waiting wrote neither.
C15_VerificationOutcome ==
  \A v \in DOMAIN verifs :
     LET r  == verifs[v]
         ok == /\ r.answer = "text"
               /\ ~r.perms.isNull
               /\ {"SendMessages", "AttachFiles"} \subseteq r.perms.flags
         errors == Copies("verify:error") + Copies("verify:notFound")
                     + Copies("verify:notText") + Copies("verify:lacksPermissions")
     IN  /\ Len(verifs) = 1
         /\ r.pc = "fetch" => Copies("verify:verified") = 0 /\ errors = 0
         /\ (r.pc = "done" /\ ok) => Copies("verify:verified") = 1 /\ errors = 0
         /\ (r.pc = "done" /\ ~ok) => Copies("verify:verified") = 0 /\ errors = 1
         /\ r.pc = "done" =>
              /\ Copies("verify:error") = IF r.answer = "throw" THEN 1 ELSE 0
              /\ Copies("verify:notFound") = IF r.answer = "null" THEN 1 ELSE 0
              /\ Copies("verify:notText") = IF r.answer = "voice" THEN 1 ELSE 0

\* C15's case: the verification passed for a channel on which the session
\* may send and attach but not view.
C15_Witness ==
  /\ verifs # <<>> /\ verifs[1].pc = "done"
  /\ verifs[1].perms = [isNull |-> FALSE, flags |-> {"SendMessages", "AttachFiles"}]
  /\ Copies("verify:verified") = 1


\* C16: once the watcher has ended its scan and setupFileWatcher has
\* registered the 'ready' listener, the readiness line is on the console.
C16_WatcherReadyLogged ==
  (watcherReady /\ listeners.ready > 0) => Copies("watcherReady") >= 1

\* C17, in every state: no invocation waits for another: whatever the other
\* invocations are doing, the fetch of an invocation can settle with any
\* answer, its attachment can be read, and its upload can settle either way.
C17_NeverBlocked ==
  \A h \in DOMAIN inv :
     /\ inv[h].pc = "fetch" =>
          \A k \in ChannelKinds : ENABLED HandlerFetchReturn(h, k)
     /\ inv[h].pc = "send" => ENABLED UploadRead(h)
     /\ inv[h].pc = "sent" =>
          \A ok \in BOOLEAN : ENABLED UploadReturn(h, ok)

\* C17, in every step: a step of an invocation changes that invocation only,
\* and what it becomes does not depend on the other invocations: they are
\* left as they are, and the upload calls already issued are kept.
C17_StepIndependent ==
  \A h \in DOMAIN inv :
     inv'[h] # inv[h] =>
       /\ \A g \in DOMAIN inv \ {h} : inv'[g] = inv[g]
       /\ SubSeq(uploads', 1, Len(uploads)) = uploads
       /\ Len(uploads') > Len(uploads) => uploads'[Len(uploads')].h = h

\* C17: the handlers of distinct events run without mutual exclusion and
\* without an order between them, each on its own.
C17_NoMutualExclusion == []C17_NeverBlocked /\ [][C17_StepIndependent]_vars

\* C17's case: two qualifying events, both between their channel.send and
\* its end at the same time, the upload call of the second notification
\* issued before that of the first.
C17_Witness ==
  /\ Len(uploads) = 2
  /\ uploads[1].n = 2 /\ uploads[2].n = 1
  /\ \A i \in 1..2 : inv[uploads[i].h].pc \in {"send", "sent"}


\* C18, in every state: existsSync is asked once, before the channel fetch,
\* and never again: an invocation that fetched the channel saw the file at
\* its start and fetched once, and an invocation whose fetch answered a text
\* channel has issued its one upload call for its path, whether or not the
\* file was still there at that moment.
C18_CheckedOnce ==
  \A h \in DOMAIN inv :
     /\ inv[h].fetches > 0 => inv[h].existed /\ inv[h].fetches = 1
     /\ inv[h].answer = "text" =>
          /\ Cardinality(UploadsBy(h)) = 1
          /\ \A i \in UploadsBy(h) : uploads[i].attachment = inv[h].path

\* C18, in every step: the fetch of an invocation that answers a text
\* channel is followed by the upload call in the same step, with the file
\* present or not; and an upload whose file is not there when it is read ends
\* in the catch block, with one error line and no success line.
C18_StepNotAtomic ==
  \A h \in DOMAIN inv :
     /\ (inv[h].pc = "fetch" /\ inv'[h].answer = "text") =>
          /\ inv'[h].pc = "send"
          /\ uploads' = Append(uploads, uploads'[Len(uploads')])
          /\ uploads'[Len(uploads')].h = h
          /\ uploads'[Len(uploads')].present = (inv[h].path \in files)
     /\ (inv[h].pc = "send" /\ inv'[h] # inv[h] /\ inv[h].path \notin files) =>
          /\ inv'[h].pc = "done" /\ inv'[h].outcome = "error"
          /\ CopiesIn(Line("processingError", <<>>, h), log') = 1
          /\ CopiesIn(Line("posted", inv[h].path, h), log') = 0

\* C18: the existence check and the upload are not atomic: a file that was
\* there at the check and is deleted while the channel fetch is pending is
\* still uploaded, and the failure of that upload is caught and logged.
C18_CheckThenUploadNotAtomic ==
  []C18_CheckedOnce /\ [][C18_StepNotAtomic]_vars

\* C18's case: the file was there at the check, gone when channel.send was
\* called, and the invocation ended in the catch block.
C18_Witness ==
  \E i \in DOMAIN uploads :
     /\ ~uploads[i].present
     /\ inv[uploads[i].h].existed
     /\ inv[uploads[i].h].outcome = "error"
     /\ CopiesIn(Line("processingError", <<>>, uploads[i].h), log) = 1
     /\ CopiesIn(Line("posted", uploads[i].attachment, uploads[i].h), log) = 0

\* C19: a notification emitted before the client was ready found no listener
\* and is lost for good: it has no handler invocation, no console line and no
\* upload call, now or later; every invocation belongs to a notification
\* emitted after the client was ready.
C19_EarlyEventDropped ==
  /\ \A n \in DOMAIN notifs :
       notifs[n].ready = 0 =>
         /\ notifs[n].listeners = 0
         /\ InvocationsOf(n) = {}
         /\ UploadsOf(n) = {}
  /\ \A h \in DOMAIN inv :
       /\ inv[h].n \in DOMAIN notifs
       /\ notifs[inv[h].n].ready > 0
  /\ \A i \in DOMAIN uploads : notifs[uploads[i].n].ready > 0
  /\ \A l \in BagToSet(log) : l.h # 0 => l.h \in DOMAIN inv

\* C19's case: w/a.png was notified during login and dropped; it is still on
\* disk, the listener is registered since, a later file was uploaded, and
\* w/a.png never was.
C19_Witness ==
  /\ Len(notifs) = 2
  /\ notifs[1].path = P_png /\ notifs[1].ready = 0
  /\ P_png \in files /\ P_png \in watched
  /\ listeners.add = 1
  /\ \E h \in DOMAIN inv : inv[h].n = 2 /\ inv[h].outcome = "success"
  /\ UploadsOf(1) = {}


\* the lines that end invocation h: file gone, processing error, success
GoneLines(h) == CopiesIn(Line("gone", inv[h].path, h), log)
ErrorLines(h) == CopiesIn(Line("processingError", <<>>, h), log)
PostedLines(h) == CopiesIn(Line("posted", inv[h].path, h), log)

\* C20, in every state: an invocation that has ended has exactly one of the
\* four outcomes and the one line of that outcome (none when it ignored the
\* file); one still waiting has written none of them; the success line is
\* there only when the upload call was issued and settled with success, and
\* never together with an error line.
C20_OneOutcome ==
  \A h \in DOMAIN inv :
     /\ inv[h].pc = "done" <=> inv[h].outcome # "pending"
     /\ inv[h].outcome \in {"pending", "ignored", "gone", "error", "success"}
     /\ GoneLines(h) = (IF inv[h].outcome = "gone" THEN 1 ELSE 0)
     /\ ErrorLines(h) = (IF inv[h].outcome = "error" THEN 1 ELSE 0)
     /\ PostedLines(h) = (IF inv[h].outcome = "success" THEN 1 ELSE 0)
     /\ inv[h].outcome = "ignored" <=> ~IsPng(inv[h].path)
     /\ inv[h].outcome = "gone" <=> (IsPng(inv[h].path) /\ ~inv[h].existed)
     /\ inv[h].outcome = "success" =>
          /\ inv[h].answer = "text"
          /\ Cardinality(UploadsBy(h)) = 1

\* C20, in every step: the success line of an invocation is written by the
\* step in which its channel.send settles, and by no other.
C20_SuccessAfterUpload ==
  \A h \in DOMAIN inv :
     PostedLines(h)' > PostedLines(h) =>
       inv[h].pc = "sent" /\ inv'[h].outcome = "success"

\* C20: when every pending channels.fetch and channel.send settles, every
\* invocation of the 'add' listener ends, with exactly one outcome among
\* ignored, file gone, processing error and success; the success line follows
\* the successful return of the upload and never comes with an error line.
C20_HandlerTerminates ==
  /\ []C20_OneOutcome
  /\ [][C20_SuccessAfterUpload]_vars
  /\ \A h \in Invocations :
       [](h \in DOMAIN inv => <>(h \in DOMAIN inv /\ inv[h].pc = "done"))

\* C20's case: two invocations have ended, one in the catch block after its
\* upload was rejected, one with success.
C20_Witness ==
  /\ Len(inv) = 2
  /\ \A h \in DOMAIN inv : inv[h].pc = "done"
  /\ \E h \in DOMAIN inv : inv[h].outcome = "error" /\ UploadsBy(h) # {}
  /\ \E h \in DOMAIN inv : inv[h].outcome = "success"

====
